---- MODULE Spec2Model ----
(***************************************************************************)
(* The falcon runtime library (lib/falcon.h, lib/runtime.c, lib/builtin.c) *)
(* as a state machine: the process entry shim, the string and array        *)
(* constructors over an explicit heap, the string comparisons and the      *)
(* string assertion.                                                       *)
(*                                                                         *)
(* The heap is a flat arena of bytes 1..MemSize handed out by malloc.      *)
(* Memory the program has not written holds an indeterminate byte (one     *)
(* fill value for the whole arena, drawn in Init); an access outside the   *)
(* arena, or through NULL, is a fault that kills the process.  A read past *)
(* the end of a buffer but inside the arena returns whatever lies there.   *)
(* Of the program's output only the diagnostics of rt_assert_string are    *)
(* kept (out); the print builtins change nothing else of the state.        *)
(***************************************************************************)
EXTENDS Integers, Sequences, FiniteSets, TLC

\* ------------------------------------------------------------- bounds

\* Bytes of heap the allocator can hand out before it fails for good.
MemSize == 4
\* String and array values the generated code creates.
MaxValues == 3
\* Width of yint in the model; int32_t in falcon.h, narrowed so that the
\* additions a.size + b.size and a.size + 1 can leave the range.
YintBits == 3

\* ------------------------------------------------------ program constants

\* The null pointer.
NULL == 0
\* sizeof(yint): yint is int32_t.
SizeofYint == 4
\* sizeof(ychar): ychar is int8_t.
SizeofYchar == 1
\* The boundary "andq $-16, %rsp" aligns to.
StackAlign == 16
\* Width of size_t relative to yint (64 bits against 32).
SizeTBits == 2 * YintBits

\* Values of ychar (int8_t) the model uses: one negative, one positive.
Ychar == {-1, 1}
\* What memory the program has not written may hold: zero as the kernel hands
\* pages out, or something else.
Fill == {0, 1}
\* Stack pointers the loader may enter with: on the boundary, and 8 off it.
EntryRsp == {32, 40}
\* Values the generated main may return.
MainResults == {0, 3}

VARIABLES
    pc,         \* position of the process: entry, inited, aligned, main, exited, crashed
    rsp,        \* the stack pointer
    shimLog,    \* the shim's steps in the order they ran
    exitCode,   \* the status given to exit(), -1 while the process runs
    fault,      \* why the process crashed: none, null_write, bad_read
    mem,        \* the arena: address -> byte
    written,    \* addresses the program has stored to
    brk,        \* first address malloc has not handed out
    blocks,     \* blocks malloc returned: [addr, len]
    strs,       \* ystring headers, in allocation order: [data, size]
    arrs,       \* array handles held by generated code: [data, size]
    out,        \* lines written to standard output by the assertions
    last        \* the last call that changed the state: its name, operands and result

vars == <<pc, rsp, shimLog, exitCode, fault, mem, written, brk, blocks, strs, arrs, out, last>>

heapVars == <<mem, written, brk, blocks, strs, arrs>>

\* ------------------------------------------------------------ arithmetic

Pow2(n) == 2 ^ n

Min(x, y) == IF x < y THEN x ELSE y

Max(x, y) == IF x > y THEN x ELSE y

\* Largest yint.
YintMax == Pow2(YintBits - 1) - 1

\* Signed addition result as a two's complement yint.
WrapYint(n) == ((n + Pow2(YintBits - 1)) % Pow2(YintBits)) - Pow2(YintBits - 1)

\* Conversion of an int to size_t in "sizeof(T) * n".
ToSizeT(n) == n % Pow2(SizeTBits)

\* memcmp compares bytes as unsigned char.
ToUChar(c) == c % 256

\* ---------------------------------------------------------------- memory

Arena == 1..MemSize

\* The byte at an address; reads that fault are decided before Peek is used.
Peek(addr) == IF addr \in Arena THEN mem[addr] ELSE 0

\* Whether an access to p[0..n-1] faults: through NULL, or outside the arena.
Faults(p, n) == n > 0 /\ (p = NULL \/ p + n - 1 > MemSize)

\* The pointers malloc(n) may return, besides NULL: the block at brk, if it
\* fits in what is left.  malloc(0) returns a distinct pointer, so an empty
\* request still takes one byte.
MallocFits(n) == {p \in Arena : p = brk /\ p + Max(n, 1) - 1 <= MemSize}

MallocResults(n) == {NULL} \cup MallocFits(n)

BrkAfter(p, n) == IF p = NULL THEN brk ELSE p + Max(n, 1)

BlocksAfter(p, n) == IF p = NULL THEN blocks ELSE blocks \cup {[addr |-> p, len |-> n]}

\* Bytes of the block that starts at p (0 for NULL and for no block).
BlockLen(p) == IF \E b \in blocks : b.addr = p THEN (CHOOSE b \in blocks : b.addr = p).len ELSE 0

\* The bytes of a string value in memory m, as a sequence.
StrBytesIn(m, s) == [i \in 1..s.size |-> m[s.data + i - 1]]

StrBytes(s) == StrBytesIn(mem, s)

\* ------------------------------------------------------------------ memcmp

\* Indices memcmp(p, q, n) may touch in each operand.
MemcmpRange(n) == 0..(n - 1)

MemcmpFaults(p, q, n) == Faults(p, n) \/ Faults(q, n)

\* memcmp: the difference of the first pair of differing bytes, 0 if none.
Memcmp(p, q, n) ==
    LET D == {i \in MemcmpRange(n) : Peek(p + i) # Peek(q + i)}
    IN  IF D = {} THEN 0
        ELSE LET k == CHOOSE i \in D : \A j \in D : i <= j
             IN  ToUChar(Peek(p + k)) - ToUChar(Peek(q + k))

\* ------------------------------------------------------------------ records

NoCall == [op |-> "none", a |-> 0, b |-> 0, res |-> 0]

Call(op, a, b, res) == [op |-> op, a |-> a, b |-> b, res |-> res]

Running == pc = "main"

\* The process dies of a fault inside a runtime call.
Crash(why, call) ==
    /\ pc' = "crashed"
    /\ fault' = why
    /\ last' = call
    /\ UNCHANGED <<rsp, shimLog, exitCode, heapVars, out>>

Init ==
    /\ pc = "entry"
    /\ rsp \in EntryRsp
    /\ shimLog = <<>>
    /\ exitCode = -1
    /\ fault = "none"
    /\ mem \in {[x \in Arena |-> g] : g \in Fill}
    /\ written = {}
    /\ brk = 1
    /\ blocks = {}
    /\ strs = <<>>
    /\ arrs = <<>>
    /\ out = <<>>
    /\ last = NoCall

\* ------------------------------------------------------------- entry shim

\* entrypoint: runtime_init();
RuntimeInit ==
    /\ pc = "entry"
    /\ pc' = "inited"
    /\ shimLog' = Append(shimLog, "runtime_init")
    /\ UNCHANGED <<rsp, exitCode, fault, heapVars, out, last>>

\* entrypoint: __asm__("andq $-16, %rsp");
AlignStack ==
    /\ pc = "inited"
    /\ pc' = "aligned"
    /\ rsp' = rsp - (rsp % StackAlign)
    /\ shimLog' = Append(shimLog, "align")
    /\ UNCHANGED <<exitCode, fault, heapVars, out, last>>

\* Mutant: main is called without the alignment before it.
CallMainUnaligned ==
    /\ pc \in {"inited", "aligned"}
    /\ pc' = "main"
    /\ shimLog' = Append(shimLog, "call_main")
    /\ UNCHANGED <<rsp, exitCode, fault, heapVars, out, last>>

\* entrypoint: __asm__("call main");
CallMain ==
    /\ pc = "aligned"
    /\ pc' = "main"
    /\ shimLog' = Append(shimLog, "call_main")
    /\ UNCHANGED <<rsp, exitCode, fault, heapVars, out, last>>

\* Mutant: main's result is handed to exit().
ExitStatusOfMain(r) == r

\* The status entrypoint gives exit() once main has returned r.
ExitStatus(r) == 0

\* main returns r to entrypoint, which calls exit(0).
MainReturn(r) ==
    /\ pc = "main"
    /\ pc' = "exited"
    /\ exitCode' = ExitStatus(r)
    /\ shimLog' = Append(shimLog, "exit")
    /\ last' = Call("main_return", r, 0, 0)
    /\ UNCHANGED <<rsp, fault, heapVars, out>>

\* ------------------------------------------------------------ constructors

\* The arena after copying n bytes to dst, byte i taken from src[i].
Store(dst, n, src) ==
    [x \in Arena |-> IF x >= dst /\ x < dst + n THEN src[x - dst] ELSE mem[x]]

\* Mutant: the buffer is one byte short.
NewStringBytesShort(size) == ToSizeT(SizeofYchar * (size - 1))

\* The argument of runtime_new_string's buffer malloc.
NewStringBytes(size) == ToSizeT(SizeofYchar * size)

\* runtime_new_string(str, size): hdr is whether the header malloc succeeded,
\* p the pointer the buffer malloc returned.
NewString(str, size, hdr, p) ==
    /\ Running
    /\ Len(strs) + Len(arrs) < MaxValues
    /\ IF ~hdr \/ (size > 0 /\ p = NULL)
       THEN Crash("null_write", Call("new_string", 0, 0, 0))
       ELSE /\ mem' = Store(p, size, [i \in 0..(size - 1) |-> str[i + 1]])
            /\ written' = written \cup {x \in Arena : x >= p /\ x < p + size}
            /\ brk' = BrkAfter(p, NewStringBytes(size))
            /\ blocks' = BlocksAfter(p, NewStringBytes(size))
            /\ strs' = Append(strs, [data |-> p, size |-> size])
            /\ last' = Call("new_string", size, 0, Len(strs) + 1)
            /\ UNCHANGED <<pc, rsp, shimLog, exitCode, fault, arrs, out>>

\* The size runtime_string_concat stores: a->size + b->size as a yint.
ConcatSize(a, b) == WrapYint(a.size + b.size)

\* The argument of runtime_string_concat's buffer malloc.
ConcatBytes(a, b) == ToSizeT(SizeofYchar * ConcatSize(a, b))

\* Mutant: the second loop stores at s->data[i], over a's bytes, and reads on.
ConcatByteNoOffset(a, b, k) == IF k < a.size THEN Peek(a.data + k) ELSE Peek(b.data + k)

\* Byte k of the new buffer: the first loop copies a, the second b behind it.
ConcatByte(a, b, k) == IF k < a.size THEN Peek(a.data + k) ELSE Peek(b.data + (k - a.size))

\* runtime_string_concat(a, b) on the headers strs[i], strs[j].
StringConcat(i, j, hdr, p) ==
    LET a == strs[i]
        b == strs[j]
        sz == ConcatSize(a, b)
    IN  /\ Running
        /\ Len(strs) + Len(arrs) < MaxValues
        /\ IF ~hdr \/ (p = NULL /\ (a.size > 0 \/ b.size > 0))
           THEN Crash("null_write", Call("concat", 0, 0, 0))
           ELSE /\ mem' = Store(p, sz, [k \in 0..(sz - 1) |-> ConcatByte(a, b, k)])
                /\ written' = written \cup {x \in Arena : x >= p /\ x < p + sz}
                /\ brk' = BrkAfter(p, ConcatBytes(a, b))
                /\ blocks' = BlocksAfter(p, ConcatBytes(a, b))
                /\ strs' = Append(strs, [data |-> p, size |-> sz])
                /\ last' = Call("concat", i, j, Len(strs) + 1)
                /\ UNCHANGED <<pc, rsp, shimLog, exitCode, fault, arrs, out>>

\* The size rt_append stores: a->size + 1 as a yint.
AppendSize(a) == WrapYint(a.size + 1)

\* The argument of rt_append's buffer malloc.
AppendBytes(a) == ToSizeT(SizeofYchar * AppendSize(a))

\* rt_append(a, c) on the header strs[i].
RtAppend(i, c, hdr, p) ==
    LET a == strs[i]
        sz == AppendSize(a)
    IN  /\ Running
        /\ Len(strs) + Len(arrs) < MaxValues
        /\ IF ~hdr \/ p = NULL
           THEN Crash("null_write", Call("append", 0, 0, 0))
           ELSE /\ mem' = Store(p, sz, [k \in 0..(sz - 1) |-> IF k < a.size THEN Peek(a.data + k) ELSE c])
                /\ written' = written \cup {x \in Arena : x >= p /\ x < p + sz}
                /\ brk' = BrkAfter(p, AppendBytes(a))
                /\ blocks' = BlocksAfter(p, AppendBytes(a))
                /\ strs' = Append(strs, [data |-> p, size |-> sz])
                /\ last' = Call("append", i, c, Len(strs) + 1)
                /\ UNCHANGED <<pc, rsp, shimLog, exitCode, fault, arrs, out>>

\* The argument of runtime_new_array's malloc.
NewArrayBytes(n) == ToSizeT(SizeofYint * n)

\* runtime_new_array(size): the caller keeps the element count beside the
\* pointer it gets back.
NewArray(n, p) ==
    /\ Running
    /\ Len(strs) + Len(arrs) < MaxValues
    /\ brk' = BrkAfter(p, NewArrayBytes(n))
    /\ blocks' = BlocksAfter(p, NewArrayBytes(n))
    /\ arrs' = Append(arrs, [data |-> p, size |-> n])
    /\ last' = Call("new_array", n, 0, Len(arrs) + 1)
    /\ UNCHANGED <<pc, rsp, shimLog, exitCode, fault, mem, written, strs, out>>

\* Indices of arr that rt_cprint_arr(arr, size) reads.
CprintArrReads(size) == 0..(size - 1)

\* rt_cprint_arr(arr, size) on the handle arrs[i].
CprintArr(i) ==
    LET arr == arrs[i]
    IN  /\ Running
        /\ IF Faults(arr.data, SizeofYint * Cardinality(CprintArrReads(arr.size)))
           THEN Crash("bad_read", Call("cprint_arr", i, 0, 0))
           ELSE UNCHANGED vars

\* ------------------------------------------------------------ comparisons

\* Mutant: the shorter of the two sizes is compared.
CmpLenMin(a, b) == Min(a.size, b.size)

\* The length the ordering functions hand to memcmp.
CmpLen(a, b) == a.size

\* Mutant: the size test is left out.
runtime_string_eq_nosize(a, b) == Memcmp(a.data, b.data, a.size) = 0

runtime_string_eq(a, b) == a.size = b.size /\ Memcmp(a.data, b.data, a.size) = 0

runtime_string_ne(a, b) == a.size # b.size \/ Memcmp(a.data, b.data, a.size) # 0

runtime_string_cmp(a, b) == Memcmp(a.data, b.data, CmpLen(a, b))

runtime_string_lt(a, b) == Memcmp(a.data, b.data, CmpLen(a, b)) < 0

runtime_string_gt(a, b) == Memcmp(a.data, b.data, CmpLen(a, b)) > 0

runtime_string_le(a, b) == Memcmp(a.data, b.data, CmpLen(a, b)) <= 0

runtime_string_ge(a, b) == Memcmp(a.data, b.data, CmpLen(a, b)) >= 0

\* Indices of each operand that runtime_string_eq / _ne read: the && and ||
\* leave memcmp out once the sizes differ.
EqReads(a, b) == IF a.size = b.size THEN MemcmpRange(a.size) ELSE {}

\* Indices of each operand that the ordering functions read.
OrderReads(a, b) == MemcmpRange(CmpLen(a, b))

\* A call of runtime_string_eq or runtime_string_ne on strs[i], strs[j]: the
\* result goes to the caller and nothing else changes.
StringEq(i, j) ==
    /\ Running
    /\ UNCHANGED vars

\* A call of runtime_string_lt / gt / le / ge / cmp on strs[i], strs[j].
StringOrder(i, j) ==
    LET a == strs[i]
        b == strs[j]
    IN  /\ Running
        /\ IF MemcmpFaults(a.data, b.data, CmpLen(a, b))
           THEN Crash("bad_read", Call("order", i, j, 0))
           ELSE UNCHANGED vars

\* -------------------------------------------------------------- assertion

\* The indices at which rt_assert_string finds a->data[i] != b->data[i].
Mismatches(a, b) == {k \in 0..(a.size - 1) : Peek(a.data + k) # Peek(b.data + k)}

FirstMismatch(a, b) == CHOOSE k \in Mismatches(a, b) : \A m \in Mismatches(a, b) : k <= m

\* Indices of each operand that rt_assert_string compares.
AssertReads(a, b) ==
    IF a.size # b.size THEN {}
    ELSE IF Mismatches(a, b) # {} THEN 0..FirstMismatch(a, b)
    ELSE 0..(a.size - 1)

\* The line rt_assert_string prints before exit(1).
AssertLine(a, b) ==
    IF a.size # b.size
    THEN [kind |-> "sizes", x |-> a.size, y |-> b.size]
    ELSE [kind |-> "chars", x |-> Peek(a.data + FirstMismatch(a, b)),
                            y |-> Peek(b.data + FirstMismatch(a, b))]

\* Mutant: the size test is left out.
AssertFailsBytesOnly(a, b) == Mismatches(a, b) # {}

\* Whether rt_assert_string(a, b) reaches one of its two exit(1) calls.
AssertFails(a, b) == a.size # b.size \/ Mismatches(a, b) # {}

\* rt_assert_string(a, b) on the headers strs[i], strs[j].
AssertString(i, j) ==
    LET a == strs[i]
        b == strs[j]
    IN  /\ Running
        /\ IF AssertFails(a, b)
           THEN /\ out' = Append(out, AssertLine(a, b))
                /\ pc' = "exited"
                /\ exitCode' = 1
                /\ last' = Call("assert_string", i, j, 0)
                /\ UNCHANGED <<rsp, shimLog, fault, heapVars>>
           ELSE UNCHANGED vars

StrIds == 1..Len(strs)

\* Element counts the generated code asks runtime_new_array for.
ElemCounts == 0..(MemSize \div SizeofYint)

\* Lengths of the buffers the generated code hands to runtime_new_string.
StrLens == 0..Min(MemSize, YintMax)

Next ==
    \/ RuntimeInit
    \/ AlignStack
    \/ CallMain
    \/ \E r \in MainResults : MainReturn(r)
    \/ \E n \in StrLens, hdr \in BOOLEAN :
         \E p \in MallocResults(NewStringBytes(n)), str \in [1..n -> Ychar] :
            NewString(str, n, hdr, p)
    \/ \E i \in StrIds, j \in StrIds, hdr \in BOOLEAN :
         \E p \in MallocResults(ConcatBytes(strs[i], strs[j])) :
            StringConcat(i, j, hdr, p)
    \/ \E i \in StrIds, c \in Ychar, hdr \in BOOLEAN :
         \E p \in MallocResults(AppendBytes(strs[i])) :
            RtAppend(i, c, hdr, p)
    \/ \E n \in ElemCounts :
         \E p \in MallocResults(NewArrayBytes(n)) : NewArray(n, p)
    \/ \E i \in 1..Len(arrs) : CprintArr(i)
    \/ \E i \in StrIds, j \in StrIds : StringEq(i, j)
    \/ \E i \in StrIds, j \in StrIds : StringOrder(i, j)
    \/ \E i \in StrIds, j \in StrIds : AssertString(i, j)

Spec == Init /\ [][Next]_vars

\* ------------------------------------------------------- shared vocabulary

\* Whether two string values hold the same bytes.
SameBytes(a, b) == a.size = b.size /\ StrBytes(a) = StrBytes(b)

\* The addresses of the block [p, p + n).
Span(p, n) == {x \in Int : x >= p /\ x < p + n} \cap (0..(MemSize + 1))

\* ----------------------------------------------------------------- C1

\* C1: a runtime_string_concat(a, b) that returns adds one string value
\* whose size is a.size + b.size and whose bytes are a's followed by b's, in
\* a buffer no earlier block overlaps; every earlier string value, a and b
\* among them (a and b may be the same value), keeps its size and bytes.
C1_ConcatStep ==
    (last'.op = "concat" /\ last' # last /\ pc' = "main") =>
        LET a == strs[last'.a]
            b == strs[last'.b]
            r == strs'[Len(strs')]
        IN  /\ Len(strs') = Len(strs) + 1
            /\ last'.res = Len(strs')
            /\ r.size = a.size + b.size
            /\ StrBytesIn(mem', r) = StrBytes(a) \o StrBytes(b)
            /\ r.size > 0 => r.data # NULL
            /\ r.data # NULL =>
                 /\ [addr |-> r.data, len |-> r.size] \in blocks' \ blocks
                 /\ \A blk \in blocks : Span(blk.addr, Max(blk.len, 1)) \cap Span(r.data, Max(r.size, 1)) = {}
            /\ \A k \in 1..Len(strs) :
                 /\ strs'[k] = strs[k]
                 /\ StrBytesIn(mem', strs[k]) = StrBytes(strs[k])

C1_Concat == [][C1_ConcatStep]_vars

\* A concatenation of two distinct non-empty strings has returned.
C1_Witness ==
    /\ last.op = "concat"
    /\ pc = "main"
    /\ last.a # last.b
    /\ strs[last.a].size > 0
    /\ strs[last.b].size > 0
    /\ StrBytes(strs[last.a]) # StrBytes(strs[last.b])

\* An aliased concatenation of a non-empty string has returned.
C1_AliasedReached ==
    /\ last.op = "concat"
    /\ pc = "main"
    /\ last.a = last.b
    /\ strs[last.a].size > 0

\* ----------------------------------------------------------------- C2

\* C2: on every pair of string values of the heap, runtime_string_eq is true
\* exactly when the sizes are equal and every byte of a equals the byte of b
\* at the same index; it is reflexive and symmetric; with different sizes it
\* is false and reads no byte; runtime_string_ne is its negation.
C2_Equality ==
    \A i \in StrIds, j \in StrIds :
        LET a == strs[i]
            b == strs[j]
        IN  /\ runtime_string_eq(a, b) <=>
                 (a.size = b.size /\ \A k \in 1..a.size : StrBytes(a)[k] = StrBytes(b)[k])
            /\ runtime_string_eq(a, a)
            /\ runtime_string_eq(a, b) <=> runtime_string_eq(b, a)
            /\ a.size # b.size => (~runtime_string_eq(a, b) /\ EqReads(a, b) = {})
            /\ a.size = b.size => EqReads(a, b) = 0..(a.size - 1)
            /\ runtime_string_ne(a, b) <=> ~runtime_string_eq(a, b)

\* The generated code can compare: two distinct equal non-empty strings, two
\* strings of one size that differ, and two strings of different sizes where
\* the shorter is a prefix of the longer.
C2_Witness ==
    /\ pc = "main"
    /\ \E i \in StrIds, j \in StrIds :
         i # j /\ strs[i].size > 0 /\ strs[i].data # strs[j].data /\ SameBytes(strs[i], strs[j])
    /\ \E i \in StrIds, j \in StrIds :
         /\ 0 < strs[i].size
         /\ strs[i].size < strs[j].size
         /\ \A k \in 1..strs[i].size : StrBytes(strs[i])[k] = StrBytes(strs[j])[k]

\* ----------------------------------------------------------------- C9

\* Whether the ordering call on (a, b) reads b past its end.
ReadsPastB(a, b) == \E k \in OrderReads(a, b) : k >= b.size

\* C9: the ordering functions read exactly the indices below a.size of both
\* operands, whatever b.size is: with b.size < a.size they read b at an
\* index >= b.size, with a.size <= b.size every index read is below the size
\* of the operand it is read from; so an ordering call can only fault on a
\* pair with b.size < a.size.
C9_OrderReads ==
    /\ \A i \in StrIds, j \in StrIds :
         LET a == strs[i]
             b == strs[j]
         IN  /\ OrderReads(a, b) = 0..(a.size - 1)
             /\ \A m \in StrIds : OrderReads(a, strs[m]) = OrderReads(a, b)
             /\ b.size < a.size => ReadsPastB(a, b)
             /\ a.size <= b.size =>
                  /\ \A k \in OrderReads(a, b) : k < a.size /\ k < b.size
                  /\ ~MemcmpFaults(a.data, b.data, CmpLen(a, b))
    /\ (fault = "bad_read" /\ last.op = "order") =>
         /\ strs[last.b].size < strs[last.a].size
         /\ ReadsPastB(strs[last.a], strs[last.b])

\* An ordering call on a pair with b.size < a.size read past b's buffer and
\* out of the heap, and the process died of it.
C9_Witness ==
    /\ pc = "crashed"
    /\ fault = "bad_read"
    /\ last.op = "order"
    /\ strs[last.b].size < strs[last.a].size
    /\ strs[last.b].size > 0

\* An ordering call on a pair with b.size < a.size whose reads past b's
\* buffer stay inside the heap, so that it returns.
C9_OverreadReturns ==
    /\ pc = "main"
    /\ \E i \in StrIds, j \in StrIds :
         /\ strs[j].size < strs[i].size
         /\ ~MemcmpFaults(strs[i].data, strs[j].data, CmpLen(strs[i], strs[j]))

\* ----------------------------------------------------------------- C3

\* Whether the ordering call on (strs[i], strs[j]) returns a value.
Returns(i, j) == ~MemcmpFaults(strs[i].data, strs[j].data, CmpLen(strs[i], strs[j]))

\* Whether the ordering call on (strs[i], strs[j]) stays inside both buffers.
WellDefined(i, j) == ~ReadsPastB(strs[i], strs[j])

Lt(i, j) == runtime_string_lt(strs[i], strs[j])

Incomparable(i, j) == ~Lt(i, j) /\ ~Lt(j, i)

\* C3: over the string values of the heap, and the ordering calls on them
\* that return, runtime_string_lt is a strict weak ordering (irreflexive,
\* transitive, with transitive incomparability), runtime_string_cmp changes
\* sign when its operands are swapped wherever both directions stay inside
\* the buffers, and lt / gt / le / ge are cmp < 0, > 0, <= 0, >= 0.
C3_StrictWeakOrder ==
    /\ \A i \in StrIds : ~Lt(i, i)
    /\ \A i \in StrIds, j \in StrIds, k \in StrIds :
         (Returns(i, j) /\ Returns(j, k) /\ Returns(i, k)) =>
             (Lt(i, j) /\ Lt(j, k) => Lt(i, k))
    /\ \A i \in StrIds, j \in StrIds, k \in StrIds :
         (/\ Returns(i, j) /\ Returns(j, i) /\ Returns(j, k)
          /\ Returns(k, j) /\ Returns(i, k) /\ Returns(k, i)) =>
             (Incomparable(i, j) /\ Incomparable(j, k) => Incomparable(i, k))
    /\ \A i \in StrIds, j \in StrIds :
         (WellDefined(i, j) /\ WellDefined(j, i)) =>
             runtime_string_cmp(strs[i], strs[j]) = -runtime_string_cmp(strs[j], strs[i])
    /\ \A i \in StrIds, j \in StrIds :
         Returns(i, j) =>
             LET c == runtime_string_cmp(strs[i], strs[j])
             IN  /\ runtime_string_lt(strs[i], strs[j]) <=> c < 0
                 /\ runtime_string_gt(strs[i], strs[j]) <=> c > 0
                 /\ runtime_string_le(strs[i], strs[j]) <=> c <= 0
                 /\ runtime_string_ge(strs[i], strs[j]) <=> c >= 0

\* The same statement over string values of one size, where no ordering
\* call reads past a buffer: this part the code satisfies.
C3_EqualSizes ==
    /\ \A i \in StrIds, j \in StrIds, k \in StrIds :
         (strs[i].size = strs[j].size /\ strs[j].size = strs[k].size) =>
             /\ Lt(i, j) /\ Lt(j, k) => Lt(i, k)
             /\ Incomparable(i, j) /\ Incomparable(j, k) => Incomparable(i, k)
             /\ runtime_string_cmp(strs[i], strs[j]) = -runtime_string_cmp(strs[j], strs[i])

\* ----------------------------------------------------------------- C4

\* The least index at which a and b differ, a.size if there is none.
FirstDiff(a, b) ==
    LET D == {k \in 0..(a.size - 1) : StrBytes(a)[k + 1] # StrBytes(b)[k + 1]}
    IN  IF D = {} THEN a.size ELSE CHOOSE k \in D : \A m \in D : k <= m

\* C4: rt_assert_string(a, b) returns, leaving the process running, exactly
\* when the sizes are equal and all bytes match.  On a size mismatch it
\* compares no byte, prints one line naming the two sizes and exits with
\* status 1; on equal sizes it compares in index order up to the first
\* mismatch, prints one line for that byte pair and exits with status 1.
\* Nothing runs after the failed assertion.
C4_AssertString ==
    /\ \A i \in StrIds, j \in StrIds :
         LET a == strs[i]
             b == strs[j]
         IN  /\ AssertFails(a, b) <=> ~SameBytes(a, b)
             /\ a.size # b.size =>
                  /\ AssertReads(a, b) = {}
                  /\ AssertLine(a, b) = [kind |-> "sizes", x |-> a.size, y |-> b.size]
             /\ (a.size = b.size /\ ~SameBytes(a, b)) =>
                  /\ AssertReads(a, b) = 0..FirstDiff(a, b)
                  /\ AssertLine(a, b) = [kind |-> "chars",
                                         x |-> StrBytes(a)[FirstDiff(a, b) + 1],
                                         y |-> StrBytes(b)[FirstDiff(a, b) + 1]]
             /\ SameBytes(a, b) => AssertReads(a, b) = 0..(a.size - 1)
    /\ last.op = "assert_string" =>
         /\ pc = "exited"
         /\ exitCode = 1
         /\ ~SameBytes(strs[last.a], strs[last.b])
         /\ out = <<AssertLine(strs[last.a], strs[last.b])>>
         /\ ~ENABLED Next
    /\ exitCode = 1 => last.op = "assert_string"
    /\ pc = "main" => out = <<>>

\* An assertion on two strings of one size that differ in their second byte
\* has failed.
C4_Witness ==
    /\ pc = "exited"
    /\ exitCode = 1
    /\ last.op = "assert_string"
    /\ Len(out) = 1
    /\ out[1].kind = "chars"
    /\ FirstDiff(strs[last.a], strs[last.b]) = 1

\* An assertion on two strings of different sizes has failed.
C4_SizesReached ==
    /\ pc = "exited"
    /\ exitCode = 1
    /\ Len(out) = 1
    /\ out[1] = [kind |-> "sizes", x |-> 1, y |-> 2]

\* ----------------------------------------------------------------- C5

\* The steps of entrypoint, in the order of its code.
ShimSteps == <<"runtime_init", "align", "call_main", "exit">>

\* C5: the shim runs once and never re-enters main (its steps so far are an
\* initial part of the four steps of entrypoint, each taken once); when main
\* returns to it the process exits with status 0 whatever main returned, and
\* no step runs after that.
C5_ExitZero ==
    /\ Len(shimLog) <= Len(ShimSteps)
    /\ \A k \in 1..Len(shimLog) : shimLog[k] = ShimSteps[k]
    /\ last.op = "main_return" =>
         /\ pc = "exited"
         /\ exitCode = 0
         /\ shimLog = ShimSteps
         /\ ~ENABLED Next
    /\ (pc = "exited" /\ exitCode = 0) => last.op = "main_return"

\* main returned a value other than 0 and the process exited with status 0.
C5_Witness ==
    /\ pc = "exited"
    /\ last.op = "main_return"
    /\ last.a # 0
    /\ exitCode = 0
    /\ Len(strs) > 0

\* ----------------------------------------------------------------- C8

\* Where step s stands in the shim's log, 0 if it has not run.
StepAt(s) == IF \E k \in 1..Len(shimLog) : shimLog[k] = s
             THEN CHOOSE k \in 1..Len(shimLog) : shimLog[k] = s
             ELSE 0

C6_ArrayHolds ==
    /\ \A i \in 1..Len(arrs) :
         /\ arrs[i].size >= 0
         /\ BlockLen(arrs[i].data) >= SizeofYint * arrs[i].size
         /\ arrs[i].size = 0 => CprintArrReads(arrs[i].size) = {}
    /\ last.op = "new_array" => arrs[last.res].size = last.a
    /\ last.op = "cprint_arr" => fault # "bad_read"

\* ----------------------------------------------------------------- C7

\* Whether a string value's buffer is there and holds its bytes.
BufferHolds(s) ==
    \/ s.size = 0
    \/ /\ s.data # NULL
       /\ BlockLen(s.data) >= s.size
       /\ Span(s.data, s.size) \subseteq Arena

\* C7 as stated: a failed allocation in runtime_new_string,
\* runtime_string_concat or rt_append never leads to a write through a null
\* pointer, and no string value is returned whose buffer is null or smaller
\* than its size.
C7_NoNullWrite ==
    /\ fault # "null_write"
    /\ \A i \in StrIds : BufferHolds(strs[i])

\* ----------------------------------------------------------------- C10

\* C10: every string value that exists has a size that is a non-negative
\* yint, a buffer that was allocated with exactly size bytes, all of them
\* written, and a data pointer that is not null when size > 0; no two
\* buffers overlap.
C10_StringInvariant ==
    /\ \A i \in StrIds :
         LET s == strs[i]
         IN  /\ s.size >= 0
             /\ s.size <= YintMax
             /\ s.size > 0 => s.data # NULL
             /\ s.data # NULL =>
                  /\ [addr |-> s.data, len |-> s.size] \in blocks
                  /\ Span(s.data, s.size) \subseteq Arena
                  /\ Span(s.data, s.size) \subseteq written
    /\ \A i \in StrIds, j \in StrIds :
         (i # j /\ strs[i].data # NULL /\ strs[j].data # NULL) =>
             Span(strs[i].data, Max(strs[i].size, 1)) \cap Span(strs[j].data, Max(strs[j].size, 1)) = {}

\* rt_append has returned a string of the largest size a yint holds, made
\* from a string that runtime_string_concat or rt_append had returned, beside
\* an empty string whose buffer malloc returned NULL.
C10_Witness ==
    /\ pc = "main"
    /\ last.op = "append"
    /\ strs[last.res].size >= 2
    /\ \E i \in StrIds : strs[i].size = 0 /\ strs[i].data = NULL

\* An addition of sizes left the range of yint, and the call died.
C10_OverflowReached ==
    /\ pc = "crashed"
    /\ last.op \in {"concat", "append"}
    /\ \E i \in StrIds : strs[i].size + 1 > YintMax \/ 2 * strs[i].size > YintMax

====
